---- MODULE Spec2Model ----
(***************************************************************************)
(* Model of the resume-vs-job-description analyzer: the /analyze handler   *)
(* (app/main.py), the PDF conversion wrapper (app/pdf_parser.py) and the   *)
(* three-stage agent workflow with its response coercion (app/agents.py).  *)
(*                                                                         *)
(* A text is a sequence of one-character strings.  The characters that     *)
(* occur in inputs are space, newline, lower-case letters, the digits      *)
(* 0..2 and the JSON punctuation { } [ ] " : ,  -- no backslash, no quote  *)
(* ', no sign, no '.', no upper-case letter, so JSON escapes, floats, NaN  *)
(* and Infinity cannot occur in a reply.                                   *)
(***************************************************************************)
EXTENDS Integers, Sequences, FiniteSets, TLC

VARIABLES pc, req, resume_text, job_description, gstate, calls, resp,
          raw, parsed, outputs

vars == <<pc, req, resume_text, job_description, gstate, calls, resp,
          raw, parsed, outputs>>

(***************************************************************************)
(* Texts                                                                   *)
(***************************************************************************)

\* str.strip() and the JSON decoder's WHITESPACE both skip these.
WS == {" ", "\n", "\t", "\r"}

\* Characters the JSON string scanner rejects in strict mode (below 0x20).
ControlChars == {"\n", "\t", "\r"}

\* A text of n copies of the character c.
Fill(n, c) == [i \in 1..n |-> c]

\* str.strip()
strip(s) ==
  IF \A i \in 1..Len(s) : s[i] \in WS THEN <<>>
  ELSE LET a == CHOOSE i \in 1..Len(s) :
                  s[i] \notin WS /\ \A j \in 1..(i - 1) : s[j] \in WS
           b == CHOOSE i \in 1..Len(s) :
                  s[i] \notin WS /\ \A j \in (i + 1)..Len(s) : s[j] \in WS
       IN SubSeq(s, a, b)

RECURSIVE JoinFrom(_, _, _)
JoinFrom(sep, parts, i) ==
  IF i > Len(parts) THEN <<>>
  ELSE IF i = Len(parts) THEN parts[i]
  ELSE parts[i] \o sep \o JoinFrom(sep, parts, i + 1)

\* sep.join(parts)
Join(sep, parts) == JoinFrom(sep, parts, 1)

(***************************************************************************)
(* Python values as json.loads builds them.  Every value is a record of    *)
(* the same shape; t is the type tag.                                      *)
(***************************************************************************)

JNull == [t |-> "null", s |-> <<>>, n |-> 0, items |-> <<>>, keys |-> <<>>]
JBool(b) == [t |-> "bool", s |-> <<>>, n |-> IF b THEN 1 ELSE 0,
             items |-> <<>>, keys |-> <<>>]
JInt(n) == [t |-> "int", s |-> <<>>, n |-> n, items |-> <<>>, keys |-> <<>>]
JStr(s) == [t |-> "str", s |-> s, n |-> 0, items |-> <<>>, keys |-> <<>>]
JList(items) == [t |-> "list", s |-> <<>>, n |-> 0, items |-> items,
                 keys |-> <<>>]
JDict(keys, items) == [t |-> "dict", s |-> <<>>, n |-> 0, items |-> items,
                       keys |-> keys]

DigitChars == <<"0", "1", "2", "3", "4", "5", "6", "7", "8", "9">>
Digits == {DigitChars[i] : i \in 1..Len(DigitChars)}
DigitValue(c) == CHOOSE d \in 0..9 : DigitChars[d + 1] = c

RECURSIVE IntToText(_)
IntToText(n) ==
  IF n < 10 THEN <<DigitChars[n + 1]>>
  ELSE IntToText(n \div 10) \o <<DigitChars[(n % 10) + 1]>>

\* bool(v)
PyTruthy(v) ==
  CASE v.t = "null" -> FALSE
    [] v.t = "bool" -> v.n = 1
    [] v.t = "int"  -> v.n # 0
    [] v.t = "str"  -> v.s # <<>>
    [] OTHER        -> v.items # <<>>

RECURSIVE PyRepr(_)
RECURSIVE ReprItems(_, _)
RECURSIVE ReprPairs(_, _, _)
\* repr(v); a str holds none of ' " \ or control characters here.
PyRepr(v) ==
  CASE v.t = "null" -> <<"N", "o", "n", "e">>
    [] v.t = "bool" -> IF v.n = 1 THEN <<"T", "r", "u", "e">>
                       ELSE <<"F", "a", "l", "s", "e">>
    [] v.t = "int"  -> IntToText(v.n)
    [] v.t = "str"  -> <<"'">> \o v.s \o <<"'">>
    [] v.t = "list" -> <<"[">> \o ReprItems(v.items, 1) \o <<"]">>
    [] OTHER        -> <<"{">> \o ReprPairs(v.keys, v.items, 1) \o <<"}">>
ReprItems(items, i) ==
  IF i > Len(items) THEN <<>>
  ELSE PyRepr(items[i])
       \o (IF i < Len(items) THEN <<",", " ">> ELSE <<>>)
       \o ReprItems(items, i + 1)
ReprPairs(keys, items, i) ==
  IF i > Len(keys) THEN <<>>
  ELSE <<"'">> \o keys[i] \o <<"'", ":", " ">> \o PyRepr(items[i])
       \o (IF i < Len(keys) THEN <<",", " ">> ELSE <<>>)
       \o ReprPairs(keys, items, i + 1)

\* str(v)
PyStr(v) == IF v.t = "str" THEN v.s ELSE PyRepr(v)

\* dict.get(key), default None
DictGet(d, key) ==
  IF \E i \in 1..Len(d.keys) : d.keys[i] = key
  THEN d.items[CHOOSE i \in 1..Len(d.keys) : d.keys[i] = key]
  ELSE JNull

\* d[key] = v on the (keys, items) of a dict under construction: a repeated
\* key keeps its place and takes the later value.
DictSet(keys, items, key, v) ==
  IF \E i \in 1..Len(keys) : keys[i] = key
  THEN <<keys, [items EXCEPT ![CHOOSE i \in 1..Len(keys) : keys[i] = key] = v]>>
  ELSE <<Append(keys, key), Append(items, v)>>

(***************************************************************************)
(* json.loads: the decoder's scanner, on texts over the input characters.  *)
(* A scan returns [ok, v, end]: end is the index after the value.          *)
(***************************************************************************)

ScanFail == [ok |-> FALSE, v |-> JNull, end |-> 0]
ScanOk(v, end) == [ok |-> TRUE, v |-> v, end |-> end]

At(s, i) == IF i >= 1 /\ i <= Len(s) THEN s[i] ELSE ""

RECURSIVE SkipWS(_, _)
SkipWS(s, i) == IF At(s, i) \in WS THEN SkipWS(s, i + 1) ELSE i

HasAt(s, i, word) ==
  /\ i + Len(word) - 1 <= Len(s)
  /\ SubSeq(s, i, i + Len(word) - 1) = word

\* py_scanstring(s, i), i the index after the opening quote.
ScanString(s, i) ==
  IF \A j \in i..Len(s) : s[j] # "\""
  THEN ScanFail
  ELSE LET e == CHOOSE j \in i..Len(s) :
                  s[j] = "\"" /\ \A k \in i..(j - 1) : s[k] # "\""
       IN IF \E k \in i..(e - 1) : s[k] \in ControlChars
          THEN ScanFail
          ELSE ScanOk(JStr(SubSeq(s, i, e - 1)), e + 1)

RECURSIVE DigitsEnd(_, _)
DigitsEnd(s, i) == IF At(s, i) \in Digits THEN DigitsEnd(s, i + 1) ELSE i

RECURSIVE DigitsValue(_, _, _, _)
DigitsValue(s, i, e, acc) ==
  IF i >= e THEN acc
  ELSE DigitsValue(s, i + 1, e, 10 * acc + DigitValue(s[i]))

\* NUMBER_RE at i: 0 | [1-9][0-9]*  (no sign, fraction or exponent occurs)
ScanNumber(s, i) ==
  LET e == IF s[i] = "0" THEN i + 1 ELSE DigitsEnd(s, i)
  IN ScanOk(JInt(DigitsValue(s, i, e, 0)), e)

RECURSIVE ScanOnce(_, _)
RECURSIVE ScanArray(_, _, _)
RECURSIVE ArrayElement(_, _, _)
RECURSIVE ArraySeparator(_, _, _)
RECURSIVE ScanObject(_, _, _, _)
RECURSIVE ObjectKey(_, _, _, _)
RECURSIVE ObjectColon(_, _, _, _, _)
RECURSIVE ObjectValue(_, _, _, _, _)
RECURSIVE ObjectSeparator(_, _, _)
RECURSIVE ObjectNextKey(_, _, _)

\* scan_once(s, i)
ScanOnce(s, i) ==
  LET c == At(s, i)
  IN CASE c = "\"" -> ScanString(s, i + 1)
       [] c = "{" ->
            LET j == SkipWS(s, i + 1)
            IN IF At(s, j) = "}" THEN ScanOk(JDict(<<>>, <<>>), j + 1)
               ELSE IF At(s, j) # "\"" THEN ScanFail
               ELSE ScanObject(s, j + 1, <<>>, <<>>)
       [] c = "[" ->
            LET j == SkipWS(s, i + 1)
            IN IF At(s, j) = "]" THEN ScanOk(JList(<<>>), j + 1)
               ELSE ScanArray(s, j, <<>>)
       [] c = "n" /\ HasAt(s, i, <<"n", "u", "l", "l">>) ->
            ScanOk(JNull, i + 4)
       [] c = "t" /\ HasAt(s, i, <<"t", "r", "u", "e">>) ->
            ScanOk(JBool(TRUE), i + 4)
       [] c = "f" /\ HasAt(s, i, <<"f", "a", "l", "s", "e">>) ->
            ScanOk(JBool(FALSE), i + 5)
       [] c \in Digits -> ScanNumber(s, i)
       [] OTHER -> ScanFail

\* JSONArray's loop, i at the next element and acc the elements so far:
\* the element,
ScanArray(s, i, acc) == ArrayElement(s, acc, ScanOnce(s, i))
ArrayElement(s, acc, r) ==
  IF ~r.ok THEN ScanFail
  ELSE ArraySeparator(s, Append(acc, r.v), SkipWS(s, r.end))
\* then "]" or ",".
ArraySeparator(s, acc, j) ==
  IF At(s, j) = "]" THEN ScanOk(JList(acc), j + 1)
  ELSE IF At(s, j) # "," THEN ScanFail
  ELSE ScanArray(s, SkipWS(s, j + 1), acc)

\* JSONObject's loop, i the index after the opening quote of the next key
\* and (keys, items) the members so far: the key,
ScanObject(s, i, keys, items) == ObjectKey(s, keys, items, ScanString(s, i))
ObjectKey(s, keys, items, k) ==
  IF ~k.ok THEN ScanFail
  ELSE ObjectColon(s, keys, items, k.v.s, SkipWS(s, k.end))
\* the ":",
ObjectColon(s, keys, items, key, c) ==
  IF At(s, c) # ":" THEN ScanFail
  ELSE ObjectValue(s, keys, items, key, ScanOnce(s, SkipWS(s, c + 1)))
\* the value,
ObjectValue(s, keys, items, key, r) ==
  IF ~r.ok THEN ScanFail
  ELSE ObjectSeparator(s, DictSet(keys, items, key, r.v), SkipWS(s, r.end))
\* then "}" or "," and the quote of the next key.
ObjectSeparator(s, d, j) ==
  IF At(s, j) = "}" THEN ScanOk(JDict(d[1], d[2]), j + 1)
  ELSE IF At(s, j) # "," THEN ScanFail
  ELSE ObjectNextKey(s, d, SkipWS(s, j + 1))
ObjectNextKey(s, d, q) ==
  IF At(s, q) # "\"" THEN ScanFail
  ELSE ScanObject(s, q + 1, d[1], d[2])

\* decode(s) after raw_decode returned r: only whitespace may follow.
DecodeEnd(s, r) ==
  IF ~r.ok THEN ScanFail
  ELSE IF SkipWS(s, r.end) # Len(s) + 1 THEN ScanFail
  ELSE r

\* json.loads(s): ok = FALSE stands for JSONDecodeError.
json_loads(s) == DecodeEnd(s, ScanOnce(s, SkipWS(s, 1)))

(***************************************************************************)
(* Response coercion (app/agents.py)                                       *)
(***************************************************************************)

\* "No summary returned by the LLM."
NoSummary ==
  <<"N", "o", " ", "s", "u", "m", "m", "a", "r", "y", " ",
    "r", "e", "t", "u", "r", "n", "e", "d", " ", "b", "y", " ",
    "t", "h", "e", " ", "L", "L", "M", ".">>

KeySummary == <<"s", "u", "m", "m", "a", "r", "y">>
KeyHighlights == <<"h", "i", "g", "h", "l", "i", "g", "h", "t", "s">>

\* highlights[:8]
HighlightCap == 8

\* The lazy pattern \{.*?\}: from the first "{" to the first "}" after it.
ExtractLazy(text) ==
  IF \E i \in 1..Len(text) :
       text[i] = "{" /\ \E j \in (i + 1)..Len(text) : text[j] = "}"
  THEN LET a == CHOOSE i \in 1..Len(text) :
                  text[i] = "{" /\ \A k \in 1..(i - 1) : text[k] # "{"
           b == CHOOSE j \in (a + 1)..Len(text) :
                  text[j] = "}" /\ \A k \in (a + 1)..(j - 1) : text[k] # "}"
       IN SubSeq(text, a, b)
  ELSE text

\* re.search(r"\{.*\}", text, re.DOTALL): from the first "{" to the last "}"
\* after it; the text itself when there is no such pair.
_extract_json_blob(text) ==
  IF \E i \in 1..Len(text) :
       text[i] = "{" /\ \E j \in (i + 1)..Len(text) : text[j] = "}"
  THEN LET a == CHOOSE i \in 1..Len(text) :
                  text[i] = "{" /\ \A k \in 1..(i - 1) : text[k] # "{"
           b == CHOOSE j \in 1..Len(text) :
                  text[j] = "}" /\ \A k \in (j + 1)..Len(text) : text[k] # "}"
       IN SubSeq(text, a, b)
  ELSE text

AgentOutput(name, summary, highlights) ==
  [name |-> name, summary |-> summary, highlights |-> highlights]

NoOutput == AgentOutput("", <<>>, <<>>)

\* [str(item).strip() for item in highlights if str(item).strip()]
KeepNonEmpty(t) == IF t # <<>> THEN <<t>> ELSE <<>>

RECURSIVE CleanItems(_, _)
CleanItems(items, i) ==
  IF i > Len(items) THEN <<>>
  ELSE KeepNonEmpty(strip(PyStr(items[i]))) \o CleanItems(items, i + 1)

\* A slice that keeps everything.
TakeAll(seq, n) == seq

\* seq[:n]
Take(seq, n) == SubSeq(seq, 1, IF Len(seq) < n THEN Len(seq) ELSE n)

\* The outcome of a call: exc = "" when it returns out, else the name of the
\* exception it raises.
Returned(out) == [exc |-> "", out |-> out]
Raised(exc) == [exc |-> exc, out |-> NoOutput]
NoOutcome == Raised("")

\* A fallback that keeps the extracted blob instead of the whole reply.
FallbackOfBlob(text) ==
  JDict(<<KeySummary, KeyHighlights>>,
        <<JStr(strip(_extract_json_blob(text))), JList(<<>>)>>)

\* {"summary": raw.strip(), "highlights": []}
FallbackPayload(text) ==
  JDict(<<KeySummary, KeyHighlights>>, <<JStr(strip(text)), JList(<<>>)>>)

\* payload: what json.loads returned, or the fallback on JSONDecodeError.
LoadedPayload(text, r) == IF r.ok THEN r.v ELSE FallbackPayload(text)

\* str(payload.get("summary") or "").strip()
SummaryOf(got) == strip(PyStr(IF PyTruthy(got) THEN got ELSE JStr(<<>>)))

\* if not summary: summary = "No summary returned by the LLM."
OrNoSummary(summary) == IF summary = <<>> THEN NoSummary ELSE summary

\* A wrap that forgets that `or []` comes first.
HighlightItemsWrapAll(h) ==
  IF h.t = "null" THEN <<>>
  ELSE IF h.t # "list" THEN <<JStr(PyStr(h))>>
  ELSE h.items

\* highlights = payload.get("highlights") or []; a value that is no list
\* becomes [str(highlights)].
HighlightItems(h) ==
  IF ~PyTruthy(h) THEN <<>>
  ELSE IF h.t # "list" THEN <<JStr(PyStr(h))>>
  ELSE h.items

\* payload.get on a value that is no dict is an AttributeError.
Normalized(payload, agent_name) ==
  IF payload.t # "dict" THEN Raised("AttributeError")
  ELSE Returned(AgentOutput(
         agent_name,
         OrNoSummary(SummaryOf(DictGet(payload, KeySummary))),
         Take(CleanItems(HighlightItems(DictGet(payload, KeyHighlights)), 1),
              HighlightCap)))

_parse_agent_payload(text, agent_name) ==
  Normalized(LoadedPayload(text, json_loads(_extract_json_blob(text))),
             agent_name)

(***************************************************************************)
(* Replies the model returns: the inputs of the coercion.                  *)
(***************************************************************************)

\* The longest highlights array a generated reply holds (one past the cap).
MaxHighlights == 9

Quote == <<"\"">>
Quoted(s) == Quote \o s \o Quote

RECURSIVE QuotedList(_, _)
QuotedList(items, i) ==
  IF i > Len(items) THEN <<>>
  ELSE Quoted(items[i])
       \o (IF i < Len(items) THEN <<",", " ">> ELSE <<>>)
       \o QuotedList(items, i + 1)

\* The text of the JSON object {"summary": sv, "highlights": hv}, sv and hv
\* the texts of its two values.
ObjectText(sv, hv) ==
  <<"{">> \o Quoted(KeySummary) \o <<":", " ">> \o sv \o <<",", " ">>
  \o Quoted(KeyHighlights) \o <<":", " ">> \o hv \o <<"}">>

\* The object whose summary is the string s and whose highlights is the list
\* of strings hs.
Render(s, hs) == ObjectText(Quoted(s), <<"[">> \o QuotedList(hs, 1) \o <<"]">>)

Letters == <<"a", "b", "c", "d", "e", "f", "g", "h", "i", "j", "k">>

\* n one-letter highlights, the first k of them blank.
Entries(n, k) == [i \in 1..n |-> IF i <= k THEN <<>> ELSE <<Letters[i]>>]

ObjSummaries ==
  {<<"a">>,
   <<" ", "a", " ">>,
   <<>>,
   <<" ">>,
   <<"a", "}", "b">>,
   <<"a", " ", "b">>}

ObjHighlights ==
  {<<>>, <<<<"a">>>>, <<<<"a">>, <<>>, <<"b">>>>,
   <<<<" ", "a", " ">>, <<" ">>, <<"{", "b">>>>,
   Entries(HighlightCap, 0), Entries(MaxHighlights, 0),
   Entries(MaxHighlights, 1)}

SecondObject == <<" ">> \o Render(<<"z">>, <<>>)

\* Text before and after the embedded object.
Prefixes == {<<>>, <<"a", " ">>, <<"{", " ">>, <<"}", " ">>}
Suffixes == {<<>>, <<" ", "a">>, <<" ", "}">>, <<" ", "{">>, SecondObject}

\* Replies with no JSON in them, or with a blob that is not JSON.
PlainTexts ==
  {<<>>,
   <<" ">>,
   <<"\n", " ", "\n">>,
   <<"a">>,
   <<" ", "a", " ", "b", " ">>,
   <<"a", "\n", "b", " ">>,
   <<"{", "a", "}">>,
   <<"{">>,
   <<"}", "{">>,
   <<"a", " ", "{", "b", "}", " ", "c">>,
   <<" ", "{", "\"", "s", "u", "m", "m", "a", "r", "y", "\"", ":", " ", "\"", "a", "\"", " ">>,
   <<"{", "\"", "s", "u", "m", "m", "a", "r", "y", "\"", ":", " ", "a", "}">>,
   <<"[", "1", ",", " ", "2">>,
   <<"0", "1">>}

\* Replies that are JSON but no object.
ScalarTexts ==
  {<<"4", "2">>,
   <<"n", "u", "l", "l">>,
   <<"\"", "a", "\"">>,
   <<"[", "1", "]">>,
   <<"t", "r", "u", "e">>,
   <<"0">>,
   <<" ", "1", "2", " ">>,
   <<"[", "]">>,
   <<"\"", "{", "\"">>}

\* Texts of summary and highlights values of every JSON type.
SummaryValues ==
  {<<"\"", "a", "\"">>,
   <<"\"", "\"">>,
   <<"\"", " ", "\"">>,
   <<"n", "u", "l", "l">>,
   <<"0">>,
   <<"1">>,
   <<"t", "r", "u", "e">>,
   <<"[", "\"", "a", "\"", "]">>,
   <<"{", "}">>}

HighlightValues ==
  {<<"\"", "x", "\"">>,
   <<"\"", " ", "x", " ", "\"">>,
   <<"\"", "\"">>,
   <<"\"", " ", "\"">>,
   <<"n", "u", "l", "l">>,
   <<"0">>,
   <<"2">>,
   <<"t", "r", "u", "e">>,
   <<"f", "a", "l", "s", "e">>,
   <<"{", "}">>,
   <<"{", "\"", "a", "\"", ":", " ", "1", "}">>,
   <<"[", "]">>,
   <<"[", "1", ",", " ", "\"", "\"", ",", " ", "n", "u", "l", "l", ",", " ", "[", "\"", "b", "\"", "]", "]">>}

TypedObjects ==
  {ObjectText(sv, hv) : sv \in SummaryValues, hv \in HighlightValues}
  \cup {<<"{">> \o Quoted(KeySummary) \o <<":">> \o sv \o <<"}">> :
          sv \in SummaryValues}
  \cup {<<"{">> \o Quoted(KeyHighlights) \o <<":">> \o hv \o <<"}">> :
          hv \in HighlightValues}
  \cup {<<"{", "}">>}

\* A reply with what it was built from: kind "object" embeds
\* Render(summary, highlights) between pre and suf.
Reply(kind, pre, suf, s, hs, text) ==
  [kind |-> kind, pre |-> pre, suf |-> suf, summary |-> s,
   highlights |-> hs, text |-> text]

NoReply == Reply("", <<>>, <<>>, <<>>, <<>>, <<>>)

Replies ==
  {Reply("object", pre, suf, s, hs, pre \o Render(s, hs) \o suf) :
     pre \in Prefixes, suf \in Suffixes, s \in ObjSummaries,
     hs \in ObjHighlights}
  \cup {Reply("plain", <<>>, <<>>, <<>>, <<>>, x) : x \in PlainTexts}
  \cup {Reply("scalar", <<>>, <<>>, <<>>, <<>>, x) : x \in ScalarTexts}
  \cup {Reply("typed", <<>>, <<>>, <<>>, <<>>, x) : x \in TypedObjects}

AgentNames ==
  {"Similarity & strengths agent", "Gap analysis agent", "Compilation agent"}

(***************************************************************************)
(* The agents (app/agents.py)                                              *)
(***************************************************************************)

\* _truncate's default limit
TruncateLimit == 4000

\* "\n...\n[truncated]"
TruncationMarker == <<"\n", ".", ".", ".", "\n", "[", "t", "r", "u", "n", "c", "a", "t", "e", "d", "]">>

\* A cut that forgets the marker.
TruncateBare(text) ==
  IF Len(text) <= TruncateLimit THEN text ELSE SubSeq(text, 1, TruncateLimit)

_truncate(text) ==
  IF Len(text) <= TruncateLimit THEN text
  ELSE SubSeq(text, 1, TruncateLimit) \o TruncationMarker

\* What the chain does on one invocation: it raises, or it returns a text.
LlmRaises == [raised |-> TRUE, text |-> <<>>]
LlmReturns(text) == [raised |-> FALSE, text |-> text]

\* The outcome of _invoke and of an agent: exc = "" when it returns.
Outcome(exc, message, text, out) ==
  [exc |-> exc, message |-> message, text |-> text, out |-> out]

AgentErrorMessage(agent_label) ==
  <<agent_label, " could not complete due to an upstream Groq error.">>

\* An adapter that answers an upstream error with an empty reply.
InvokeSwallows(agent_label, llm) == Outcome("", <<>>, llm.text, NoOutput)

\* chain.invoke(kwargs): any exception becomes one AgentExecutionError that
\* carries the label.
_invoke(agent_label, llm) ==
  IF llm.raised
  THEN Outcome("AgentExecutionError", AgentErrorMessage(agent_label), <<>>,
               NoOutput)
  ELSE Outcome("", <<>>, llm.text, NoOutput)

\* The agent's outcome once _parse_agent_payload returned or raised p.
Parsed(text, p) == Outcome(p.exc, <<>>, text, p.out)

\* _parse_agent_payload on what _invoke returned; an exception of either
\* propagates.
ParseInvoked(r, agent_name) ==
  IF r.exc # "" THEN r
  ELSE Parsed(r.text, _parse_agent_payload(r.text, agent_name))

\* One invocation of the adapter as the history records it.
Call(prompt, agent_label, n1, v1, n2, v2, llm, result) ==
  [prompt |-> prompt, label |-> agent_label,
   kwargs |-> <<[name |-> n1, value |-> v1], [name |-> n2, value |-> v2]>>,
   raised |-> llm.raised, result |-> result]

LabelOne == "Agent 1 (similarity & strengths)"
LabelTwo == "Agent 2 (gap analysis)"
LabelThree == "Agent 3 (compilation)"

agent_one(resume, job, llm) ==
  Call("SIMILARITY_PROMPT", LabelOne,
       "resume_excerpt", _truncate(resume), "job_description", _truncate(job),
       llm,
       ParseInvoked(_invoke(LabelOne, llm), "Similarity & strengths agent"))

agent_two(resume, job, llm) ==
  Call("GAP_PROMPT", LabelTwo,
       "resume_excerpt", _truncate(resume), "job_description", _truncate(job),
       llm,
       ParseInvoked(_invoke(LabelTwo, llm), "Gap analysis agent"))

\* "Agent 1 did not produce feedback." / "Agent 2 did not produce feedback."
PlaceholderOne == <<"A", "g", "e", "n", "t", " ", "1", " ", "d", "i", "d", " ", "n", "o", "t", " ", "p", "r", "o", "d", "u", "c", "e", " ", "f", "e", "e", "d", "b", "a", "c", "k", ".">>
PlaceholderTwo == <<"A", "g", "e", "n", "t", " ", "2", " ", "d", "i", "d", " ", "n", "o", "t", " ", "p", "r", "o", "d", "u", "c", "e", " ", "f", "e", "e", "d", "b", "a", "c", "k", ".">>

\* A block that leaves the highlights out.
BlockSummaryOnly(out) == out.summary

\* "\n".join([output.summary, *output.highlights])
Block(out) == Join(<<"\n">>, <<out.summary>> \o out.highlights)

\* strengths_block or "Agent 1 did not produce feedback."
OrPlaceholder(block, placeholder) ==
  IF block # <<>> THEN block ELSE placeholder

agent_three(output_list, llm) ==
  Call("COMPILATION_PROMPT", LabelThree,
       "agent_one_feedback",
       OrPlaceholder(IF Len(output_list) > 0 THEN Block(output_list[1])
                     ELSE <<>>, PlaceholderOne),
       "agent_two_feedback",
       OrPlaceholder(IF Len(output_list) > 1 THEN Block(output_list[2])
                     ELSE <<>>, PlaceholderTwo),
       llm,
       ParseInvoked(_invoke(LabelThree, llm), "Compilation agent"))

(***************************************************************************)
(* The graph (app/agents.py)                                               *)
(***************************************************************************)

\* AgentGraphState (total=False): the result keys present, and their values.
GraphState(present, one, two, three) ==
  [present |-> present, agent_one_result |-> one, agent_two_result |-> two,
   agent_three_result |-> three]

EmptyGraphState == GraphState({}, NoOutput, NoOutput, NoOutput)

\* A graph whose edges run the compilation before the gap analysis.
EdgesCompileFirst(node) ==
  CASE node = "START"      -> "similarity"
    [] node = "similarity" -> "compile"
    [] node = "compile"    -> "gaps"
    [] OTHER               -> "END"

\* add_edge(START, "similarity"), ("similarity", "gaps"), ("gaps",
\* "compile"), ("compile", END)
Edge(node) ==
  CASE node = "START"      -> "similarity"
    [] node = "similarity" -> "gaps"
    [] node = "gaps"       -> "compile"
    [] OTHER               -> "END"

\* A result list with the first two entries exchanged.
ResultListSwapped(final_state) ==
  <<final_state.agent_two_result, final_state.agent_one_result,
    final_state.agent_three_result>>

\* run_agent_workflow's return value
ResultList(final_state) ==
  <<final_state.agent_one_result, final_state.agent_two_result,
    final_state.agent_three_result>>

(***************************************************************************)
(* The /analyze handler (app/main.py) and the converter wrapper            *)
(* (app/pdf_parser.py)                                                     *)
(***************************************************************************)

ALLOWED_RESUME_TYPES == {"application/pdf"}
MAX_RESUME_BYTES == 10 * 1024 * 1024

\* An upload: its content type, the number of bytes read from it, and what
\* MarkItDown makes of them (it raises, or returns this markdown).
Upload(content_type, size, fails, markdown) ==
  [content_type |-> content_type, size |-> size,
   converter_raises |-> fails, markdown |-> markdown]

NoUpload == Upload("", 0, FALSE, <<>>)

\* ResumeParser.convert_pdf_bytes: exc = "" and the stripped markdown, or a
\* ResumeParsingError.
convert_pdf_bytes(upload) ==
  IF upload.size = 0
  THEN [exc |-> "ResumeParsingError",
        message |-> <<"Uploaded resume is empty.">>, text |-> <<>>]
  ELSE IF upload.converter_raises
  THEN [exc |-> "ResumeParsingError",
        message |-> <<"Failed to parse the PDF resume.">>, text |-> <<>>]
  ELSE IF strip(upload.markdown) = <<>>
  THEN [exc |-> "ResumeParsingError",
        message |-> <<"Unable to extract readable text from ", "resume">>,
        text |-> <<>>]
  ELSE [exc |-> "", message |-> <<>>, text |-> strip(upload.markdown)]

Response(status, detail, results, summary, n_resume, n_job, excerpt) ==
  [status |-> status, detail |-> detail, agent_results |-> results,
   combined_summary |-> summary, resume_character_count |-> n_resume,
   job_description_character_count |-> n_job, resume_excerpt |-> excerpt]

NoResponse == Response(0, <<>>, <<>>, <<>>, 0, 0, <<>>)

HTTPException(status, detail) == Response(status, detail, <<>>, <<>>, 0, 0, <<>>)

\* A handler that converts the upload before it looks at its size.
RejectionSizeUnchecked(upload) ==
  IF upload.content_type \notin ALLOWED_RESUME_TYPES
  THEN HTTPException(400, <<"Unsupported resume content type ",
                            upload.content_type,
                            ". Only PDF files are accepted.">>)
  ELSE IF convert_pdf_bytes(upload).exc # ""
  THEN HTTPException(400, convert_pdf_bytes(upload).message)
  ELSE NoResponse

\* analyze_resume up to the call of run_agent_workflow: the HTTPException
\* it raises, or NoResponse when every check passed.
Rejection(upload) ==
  IF upload.content_type \notin ALLOWED_RESUME_TYPES
  THEN HTTPException(400, <<"Unsupported resume content type ",
                            upload.content_type,
                            ". Only PDF files are accepted.">>)
  ELSE IF upload.size = 0
  THEN HTTPException(400, <<"Uploaded resume is empty.">>)
  ELSE IF upload.size > MAX_RESUME_BYTES
  THEN HTTPException(413, <<"Resume exceeds 10 MB limit. ",
                            "Please upload a smaller PDF.">>)
  ELSE IF convert_pdf_bytes(upload).exc # ""
  THEN HTTPException(400, convert_pdf_bytes(upload).message)
  ELSE NoResponse

\* What the caller gets when a node raises: analyze_resume maps an
\* AgentExecutionError to 502 with its message; any other exception leaves
\* the handler (the framework answers 500).
Failure(result) ==
  IF result.exc = "AgentExecutionError"
  THEN HTTPException(502, result.message)
  ELSE HTTPException(500, <<result.exc>>)

(***************************************************************************)
(* Requests                                                                *)
(***************************************************************************)

ContentTypes == {"application/pdf", "text/plain"}
Sizes == {0, 1, MAX_RESUME_BYTES, MAX_RESUME_BYTES + 1}

\* What the converter returns: blank markdown, a short text with blanks
\* around it, a text of exactly the truncation limit and one past it.
Markdowns ==
  {<<>>, <<" ", "\n">>, <<" ", "c", "v", "\n">>,
   Fill(TruncateLimit, "r"), Fill(TruncateLimit + 1, "r")}

JobDescriptions == {<<"j", "d">>, Fill(TruncateLimit + 1, "j")}

Uploads ==
  {Upload(ct, n, FALSE, md) : ct \in ContentTypes, n \in Sizes,
                               md \in Markdowns}
  \cup {Upload(ct, n, TRUE, <<>>) : ct \in ContentTypes, n \in Sizes}

\* What the model answers in a run of the workflow: an object between
\* text, plain text, a JSON number, and a text past the truncation limit.
LlmReplies ==
  {<<"o", "k", " ">> \o Render(<<"f", "i", "t">>, <<<<"p", "y">>, <<>>, <<"g", "o">>>>),
   <<"n", "o", " ", "j", "s", "o", "n">>,
   <<"0">>,
   Fill(TruncateLimit + 1, "a")}

LlmOutcomes == {LlmRaises} \cup {LlmReturns(x) : x \in LlmReplies}

(***************************************************************************)
(* The workflow, one request at a time                                     *)
(***************************************************************************)

Init ==
  /\ pc = "idle"
  /\ req = NoUpload
  /\ resume_text = <<>>
  /\ job_description = <<>>
  /\ gstate = EmptyGraphState
  /\ calls = <<>>
  /\ resp = NoResponse
  /\ raw = NoReply
  /\ parsed = NoOutcome
  /\ outputs = <<>>

\* analyze_resume, from the request to the entry of the graph.
Analyze ==
  /\ pc = "idle"
  /\ \E upload \in Uploads, jd \in JobDescriptions :
       /\ req' = upload
       /\ job_description' = jd
       /\ IF Rejection(upload).status # 0
          THEN /\ resp' = Rejection(upload)
               /\ pc' = "responded"
               /\ resume_text' = <<>>
          ELSE /\ resp' = NoResponse
               /\ pc' = Edge("START")
               /\ resume_text' = convert_pdf_bytes(upload).text
  /\ UNCHANGED <<gstate, calls, raw, parsed, outputs>>

\* A node has run: its call is recorded; an exception ends the request,
\* a result is written to the graph state under key and the next node is up.
NodeDone(node, key, call) ==
  /\ calls' = Append(calls, call)
  /\ IF call.result.exc # ""
     THEN /\ resp' = Failure(call.result)
          /\ pc' = "responded"
          /\ UNCHANGED gstate
     ELSE /\ resp' = resp
          /\ pc' = Edge(node)
          /\ gstate' = [gstate EXCEPT !.present = @ \cup {key},
                                      ![key] = call.result.out]
  /\ UNCHANGED <<req, resume_text, job_description, raw, parsed, outputs>>

similarity_node ==
  /\ pc = "similarity"
  /\ \E llm \in LlmOutcomes :
       NodeDone("similarity", "agent_one_result",
                agent_one(resume_text, job_description, llm))

gap_node ==
  /\ pc = "gaps"
  /\ \E llm \in LlmOutcomes :
       NodeDone("gaps", "agent_two_result",
                agent_two(resume_text, job_description, llm))

\* state["agent_one_result"] and state["agent_two_result"]: a missing key
\* is a KeyError before any call.
compilation_node ==
  /\ pc = "compile"
  /\ IF {"agent_one_result", "agent_two_result"} \subseteq gstate.present
     THEN \E llm \in LlmOutcomes :
            NodeDone("compile", "agent_three_result",
                     agent_three(<<gstate.agent_one_result,
                                   gstate.agent_two_result>>, llm))
     ELSE /\ resp' = HTTPException(500, <<"KeyError">>)
          /\ pc' = "responded"
          /\ UNCHANGED <<req, resume_text, job_description, gstate, calls,
                         raw, parsed, outputs>>

\* The graph reached END: run_agent_workflow returns the three results and
\* analyze_resume answers.
Respond ==
  /\ pc = "END"
  /\ LET agent_outputs == ResultList(gstate)
     IN resp' = Response(200, <<>>, agent_outputs,
                         agent_outputs[Len(agent_outputs)].summary,
                         Len(resume_text), Len(job_description),
                         Take(resume_text, 500))
  /\ pc' = "responded"
  /\ UNCHANGED <<req, resume_text, job_description, gstate, calls, raw,
                 parsed, outputs>>

Next ==
  \/ Analyze
  \/ similarity_node
  \/ gap_node
  \/ compilation_node
  \/ Respond

Spec == Init /\ [][Next]_vars

\* Every call of the model returns or raises, and the handler runs on.
FairSpec == Spec /\ WF_vars(Next)

(***************************************************************************)
(* The coercion applied to every reply.                                    *)
(***************************************************************************)

InitCoerce ==
  /\ pc = "reply"
  /\ raw \in Replies
  /\ parsed = NoOutcome
  /\ req = NoUpload /\ resume_text = <<>> /\ job_description = <<>>
  /\ gstate = EmptyGraphState /\ calls = <<>> /\ resp = NoResponse
  /\ outputs = <<>>

Coerce ==
  /\ pc = "reply"
  /\ \E name \in AgentNames : parsed' = _parse_agent_payload(raw.text, name)
  /\ pc' = "coerced"
  /\ UNCHANGED <<raw, req, resume_text, job_description, gstate, calls, resp,
                 outputs>>

NextCoerce == Coerce

SpecCoerce == InitCoerce /\ [][NextCoerce]_vars

(***************************************************************************)
(* agent_three applied to every list of upstream outputs.                  *)
(***************************************************************************)

\* Replies of the two upstream stages: an object with highlights, an object
\* with a blank summary, plain text, and a text past the truncation limit.
UpstreamReplies ==
  (LlmReplies \ {<<"0">>}) \cup {Render(<<" ">>, <<<<"x">>>>)}

StageOneOutputs ==
  {_parse_agent_payload(x, "Similarity & strengths agent").out :
     x \in UpstreamReplies}
StageTwoOutputs ==
  {_parse_agent_payload(x, "Gap analysis agent").out : x \in UpstreamReplies}

\* Both outputs, the first alone, or none.
OutputLists ==
  {<<>>} \cup {<<a>> : a \in StageOneOutputs}
  \cup {<<a, b>> : a \in StageOneOutputs, b \in StageTwoOutputs}

InitCompile ==
  /\ pc = "outputs"
  /\ outputs \in OutputLists
  /\ calls = <<>>
  /\ req = NoUpload /\ resume_text = <<>> /\ job_description = <<>>
  /\ gstate = EmptyGraphState /\ resp = NoResponse
  /\ raw = NoReply /\ parsed = NoOutcome

Compile ==
  /\ pc = "outputs"
  /\ \E llm \in LlmOutcomes : calls' = <<agent_three(outputs, llm)>>
  /\ pc' = "compiled"
  /\ UNCHANGED <<outputs, req, resume_text, job_description, gstate, resp,
                 raw, parsed>>

NextCompile == Compile

SpecCompile == InitCompile /\ [][NextCompile]_vars

(***************************************************************************)
(* Claims about the response coercion, under SpecCoerce                    *)
(***************************************************************************)

Coerced == pc = "coerced"

\* s has no leading and no trailing whitespace.
Trimmed(s) == s = <<>> \/ (s[1] \notin WS /\ s[Len(s)] \notin WS)

NonBlank(s) == strip(s) # <<>>

\* The entries of hs trimmed, the blank ones dropped.
KeptTrimmed(hs) ==
  SelectSeq([i \in 1..Len(hs) |-> strip(hs[i])], LAMBDA x : x # <<>>)

FirstEight(seq) == SubSeq(seq, 1, IF Len(seq) < 8 THEN Len(seq) ELSE 8)

\* The embedded object is what the greedy pattern finds.
NoBraceAround ==
  /\ \A i \in 1..Len(raw.pre) : raw.pre[i] # "{"
  /\ \A i \in 1..Len(raw.suf) : raw.suf[i] # "}"

\* The candidate handed to json.loads is no JSON: a plain reply, or an
\* object that the greedy pattern extends over a stray brace.
Unparseable ==
  \/ raw.kind = "plain"
  \/ raw.kind = "object" /\ ~NoBraceAround

\* The payload of a reply that is (or embeds) a JSON object.
PayloadOf(r) == json_loads(_extract_json_blob(r.text)).v

HasKey(d, key) == \E i \in 1..Len(d.keys) : d.keys[i] = key

\* C1 (as claimed): for every reply the coercion returns an AgentOutput and
\* raises nothing.
C1_NeverFails == Coerced => parsed.exc = ""

\* C6 (as claimed): for every reply with no parseable JSON, empty and
\* whitespace-only replies included, the summary is the trimmed reply and
\* there are no highlights.
C6_FallbackIsTrimmedRaw ==
  (Coerced /\ Unparseable) =>
     /\ parsed.exc = ""
     /\ parsed.out.summary = strip(raw.text)
     /\ parsed.out.highlights = <<>>

\* C6 (amended): for every reply whose candidate fails to parse, the
\* coercion returns; the summary is the trimmed reply, or the sentinel when
\* the reply is empty or whitespace only; there are no highlights.
C6_Fallback ==
  (Coerced /\ Unparseable) =>
     /\ parsed.exc = ""
     /\ parsed.out.summary =
          (IF NonBlank(raw.text) THEN strip(raw.text) ELSE NoSummary)
     /\ parsed.out.highlights = <<>>

\* A reply whose blob spans a stray brace, and so does not parse, has been
\* coerced to its trimmed text.
C6_Witness ==
  /\ Coerced /\ raw.kind = "object" /\ ~NoBraceAround
  /\ parsed.out.summary = strip(raw.text) /\ Len(raw.highlights) > 0

\* C7 (as claimed): whatever surrounds a valid embedded object, braces and
\* a second object included, the coercion returns its summary and its
\* highlights (as normalised: trimmed, blank ones dropped, the first 8 kept).
C7_AnySurroundings ==
  (Coerced /\ raw.kind = "object") =>
     /\ parsed.exc = ""
     /\ parsed.out.summary =
          (IF NonBlank(raw.summary) THEN strip(raw.summary) ELSE NoSummary)
     /\ parsed.out.highlights = FirstEight(KeptTrimmed(raw.highlights))

\* C7 (amended): when no "{" precedes the embedded object and no "}"
\* follows it, the coercion returns the object's summary trimmed (the
\* sentinel when it is blank) and its highlights trimmed, in order, the
\* blank ones dropped, the first 8 of the rest kept.
C7_EmbeddedObject ==
  (Coerced /\ raw.kind = "object" /\ NoBraceAround) =>
     /\ parsed.exc = ""
     /\ parsed.out.summary =
          (IF NonBlank(raw.summary) THEN strip(raw.summary) ELSE NoSummary)
     /\ parsed.out.highlights = FirstEight(KeptTrimmed(raw.highlights))

\* An object with text on both sides and more than 8 highlights, one of
\* them blank, has been coerced to 8 highlights.
C7_Witness ==
  /\ Coerced /\ raw.kind = "object" /\ NoBraceAround
  /\ raw.pre # <<>> /\ raw.suf # <<>>
  /\ Len(raw.highlights) > 8 /\ raw.highlights[1] = <<>>
  /\ Len(parsed.out.highlights) = 8

\* What C8 says of summary and entries: a non-empty trimmed summary, the
\* sentinel when the model's summary is missing, null or blank; at most 8
\* highlights, each non-empty and trimmed.
C8_Shape ==
  /\ parsed.out.summary # <<>> /\ Trimmed(parsed.out.summary)
  /\ Len(parsed.out.highlights) <= 8
  /\ \A i \in 1..Len(parsed.out.highlights) :
       parsed.out.highlights[i] # <<>> /\ Trimmed(parsed.out.highlights[i])
  /\ raw.kind = "typed" =>
       LET sv == DictGet(PayloadOf(raw), KeySummary)
       IN (sv.t = "null" \/ (sv.t = "str" /\ ~NonBlank(sv.s)))
            => parsed.out.summary = NoSummary

\* The reply is a JSON object whose highlights value is present, not null
\* and not a list.
ScalarHighlights ==
  /\ raw.kind = "typed"
  /\ HasKey(PayloadOf(raw), KeyHighlights)
  /\ DictGet(PayloadOf(raw), KeyHighlights).t \notin {"list", "null"}

\* C8 (as claimed): every output has the shape above, and a highlights
\* value that is present but not a list yields a single-element list.
C8_ScalarAlwaysWrapped ==
  (Coerced /\ parsed.exc = "") =>
     /\ C8_Shape
     /\ ScalarHighlights => Len(parsed.out.highlights) = 1

\* C8 (amended): every output has the shape above; a highlights value that
\* is present but not a list yields the single-element list of its trimmed
\* string form when it is truthy and that form is not blank, and the empty
\* list otherwise.
C8_OutputInvariant ==
  (Coerced /\ parsed.exc = "") =>
     /\ C8_Shape
     /\ ScalarHighlights =>
          LET hv == DictGet(PayloadOf(raw), KeyHighlights)
          IN parsed.out.highlights =
               (IF PyTruthy(hv) /\ NonBlank(PyStr(hv))
                THEN <<strip(PyStr(hv))>> ELSE <<>>)

\* A non-list highlights value has been wrapped, beside a sentinel summary.
C8_Witness ==
  /\ Coerced /\ ScalarHighlights
  /\ Len(parsed.out.highlights) = 1
  /\ parsed.out.summary = NoSummary

(***************************************************************************)
(* Claims about the workflow and the handler                               *)
(***************************************************************************)

StageLabels == <<LabelOne, LabelTwo, LabelThree>>
StagePrompts == <<"SIMILARITY_PROMPT", "GAP_PROMPT", "COMPILATION_PROMPT">>
StageNames ==
  <<"Similarity & strengths agent", "Gap analysis agent", "Compilation agent">>

\* C2: a call of the model that raises is the last call of the request,
\* each stage is called at most once, the request has ended without a
\* result, and the caller got the one AgentExecutionError that carries the
\* label of the failing stage.
C2_FailureAborts ==
  /\ \A i, j \in 1..Len(calls) : i # j => calls[i].label # calls[j].label
  /\ \A k \in 1..Len(calls) :
       calls[k].raised =>
         /\ k = Len(calls)
         /\ calls[k].label = StageLabels[k]
         /\ calls[k].result.exc = "AgentExecutionError"
         /\ pc = "responded"
         /\ resp.status = 502
         /\ resp.detail = <<StageLabels[k],
                            " could not complete due to an upstream Groq error.">>
         /\ resp.agent_results = <<>>
         /\ "agent_three_result" \notin gstate.present

\* The gap stage failed after the similarity stage returned.
C2_Witness ==
  /\ Len(calls) = 2 /\ calls[2].raised /\ ~calls[1].raised
  /\ resp.status = 502

\* The order of the stages in every state of a run.
C3_Order ==
  /\ Len(calls) <= 3
  /\ \A k \in 1..Len(calls) : calls[k].label = StageLabels[k]
  /\ pc = "similarity" => calls = <<>>
  /\ pc = "gaps" => Len(calls) = 1
  /\ pc = "compile" => Len(calls) = 2
  /\ (pc = "compile" \/ Len(calls) = 3) =>
       /\ calls[1].result.exc = "" /\ calls[2].result.exc = ""
       /\ {"agent_one_result", "agent_two_result"} \subseteq gstate.present
       /\ gstate.agent_one_result = calls[1].result.out
       /\ gstate.agent_two_result = calls[2].result.out
  /\ pc \in {"idle", "similarity", "gaps", "compile", "END", "responded"}

\* C3: the stages run in the order similarity, gap, compilation, each at
\* most once; the compilation begins only when both earlier outputs are in
\* the graph state; and a run that has begun ends.
C3_Pipeline == []C3_Order /\ ((pc = "similarity") ~> (pc = "responded"))

\* All three stages have run and the request is answered.
C3_Witness == pc = "responded" /\ Len(calls) = 3 /\ resp.status = 200

\* C4: when the workflow returns, its result is the three outputs, the
\* similarity stage's first, the gap stage's second, the compilation
\* stage's third, each under the name of its stage.
C4_ResultOrder ==
  (pc = "responded" /\ resp.status = 200) =>
     /\ Len(resp.agent_results) = 3
     /\ Len(calls) = 3
     /\ \A k \in 1..3 :
          /\ calls[k].prompt = StagePrompts[k]
          /\ resp.agent_results[k] = calls[k].result.out
          /\ resp.agent_results[k].name = StageNames[k]

\* A result whose first two outputs differ in more than their names.
C4_Witness ==
  /\ pc = "responded" /\ resp.status = 200
  /\ resp.agent_results[1].summary # resp.agent_results[2].summary

\* The highlights, each on a line of its own.
RECURSIVE Lines(_, _)
Lines(hs, i) ==
  IF i > Len(hs) THEN <<>> ELSE <<"\n">> \o hs[i] \o Lines(hs, i + 1)

\* A stage's block: its summary, then its highlights, one per line.
BlockOf(out) == out.summary \o Lines(out.highlights, 1)

\* text cut to its first 4000 characters and the marker when it is longer.
CutTo4000(text) ==
  IF Len(text) <= 4000 THEN text
  ELSE SubSeq(text, 1, 4000) \o <<"\n", ".", ".", ".", "\n">>
       \o <<"[", "t", "r", "u", "n", "c", "a", "t", "e", "d", "]">>

\* The text a template variable of the k-th call was made from.
FieldSource(k, f) ==
  IF k < 3 THEN (IF f = 1 THEN resume_text ELSE job_description)
  ELSE BlockOf(calls[f].result.out)

\* C5 (as claimed): every template variable of every stage's call is its
\* source text when that has at most 4000 characters, and else its first
\* 4000 characters followed by the truncation marker.
C5_EveryFieldTruncated ==
  \A k \in 1..Len(calls) : \A f \in 1..2 :
     calls[k].kwargs[f].value = CutTo4000(FieldSource(k, f))

\* C9: the compilation stage calls the model with the first output's block
\* as agent_one_feedback and the second's as agent_two_feedback, and with
\* the agent's placeholder exactly when that output is absent.
C9_CompilationInput ==
  pc = "compiled" =>
     /\ Len(calls) = 1
     /\ calls[1].prompt = "COMPILATION_PROMPT"
     /\ calls[1].kwargs[1].name = "agent_one_feedback"
     /\ calls[1].kwargs[2].name = "agent_two_feedback"
     /\ calls[1].kwargs[1].value =
          (IF Len(outputs) >= 1 THEN BlockOf(outputs[1]) ELSE PlaceholderOne)
     /\ calls[1].kwargs[2].value =
          (IF Len(outputs) >= 2 THEN BlockOf(outputs[2]) ELSE PlaceholderTwo)
     /\ calls[1].kwargs[1].value = PlaceholderOne => Len(outputs) = 0
     /\ calls[1].kwargs[2].value = PlaceholderTwo => Len(outputs) < 2

\* The first output has highlights and the second is absent.
C9_Witness ==
  /\ pc = "compiled" /\ Len(outputs) = 1
  /\ Len(outputs[1].highlights) = 2
  /\ calls[1].kwargs[2].value = PlaceholderTwo
  /\ ~calls[1].raised

\* The checks of the upload, in the handler's order.
WrongType == req.content_type # "application/pdf"
EmptyUpload == req.size = 0
Oversized == req.size > 10 * 1024 * 1024
NoText ==
  req.converter_raises \/ \A i \in 1..Len(req.markdown) : req.markdown[i] \in WS
Accepted == ~WrongType /\ ~EmptyUpload /\ ~Oversized /\ ~NoText

\* C10: the model is called only for an upload that passed the content
\* type, non-empty, size and conversion checks; the first check that fails,
\* in that order, decides the answer (400, 400, 413, 400) and no call is
\* made; and 502 answers an AgentExecutionError and nothing else.
C10_ChecksBeforePipeline ==
  /\ calls # <<>> => Accepted
  /\ pc \in {"similarity", "gaps", "compile", "END"} => Accepted
  /\ pc = "responded" =>
       /\ WrongType =>
            /\ resp.status = 400
            /\ resp.detail[1] = "Unsupported resume content type "
       /\ (~WrongType /\ EmptyUpload) =>
            /\ resp.status = 400
            /\ resp.detail = <<"Uploaded resume is empty.">>
       /\ (~WrongType /\ ~EmptyUpload /\ Oversized) => resp.status = 413
       /\ (~WrongType /\ ~EmptyUpload /\ ~Oversized /\ NoText) =>
            /\ resp.status = 400
            /\ resp.detail[1] \in {"Failed to parse the PDF resume.",
                                   "Unable to extract readable text from "}
       /\ Accepted => resp.status \in {200, 500, 502}
       /\ resp.status = 502 <=>
            (calls # <<>> /\ calls[Len(calls)].result.exc = "AgentExecutionError")

\* An oversized PDF has been turned away.
C10_Witness ==
  /\ pc = "responded" /\ resp.status = 413 /\ calls = <<>>
  /\ ~req.converter_raises /\ ~NoText

====
